---- MODULE Spec2Model ----
(***************************************************************************)
(* Clear-an-image / copy-to-host workload of the ash examples: the command *)
(* recorder (command_pools/compute.rs, command_pools/transfer.rs), the     *)
(* submission and completion tracker (renderer.rs) and the device that     *)
(* executes the queued submissions asynchronously; the construction of the *)
(* Renderer with its rollbacks (Renderer::initialize, GPUData::new) and    *)
(* the adapter selection (physical_device.rs).                             *)
(***************************************************************************)
EXTENDS Integers, Sequences, FiniteSets, TLC

\* ------------------------------------------------------------------ bounds
\* how many public operations of the Renderer one behaviour calls
MaxCalls == 3
\* how many device calls return an error in one behaviour
MaxFaults == 1

\* ------------------------------------------------------- program constants
\* vk::QUEUE_FAMILY_IGNORED is ~0u32: all 32 bits set, -1 as a 32-bit integer
QUEUE_FAMILY_IGNORED == -1
IMAGE_WIDTH == 400
IMAGE_HEIGHT == 800
BYTES_PER_PIXEL == 4
IMAGE_COLOR == "IMAGE_COLOR"
WHOLE_SIZE == "WHOLE_SIZE"
\* Option<QueueFamily>: << >> is None, << i >> is Some of the family with index i
NoFamily == << >>
NoHandle == 0

\* the handles of GPUData
clear_image == "clear_image"
final_buffer == "final_buffer"

\* byte size the caller asks initialize() to give the readback buffer
buffer_size == IMAGE_WIDTH * IMAGE_HEIGHT * BYTES_PER_PIXEL

Layouts == {"UNDEFINED", "TRANSFER_DST_OPTIMAL", "TRANSFER_SRC_OPTIMAL"}
CbNames == {"compute", "transfer"}

\* ------------------------------------------------------ queue family map
\* the indices a queue family can have: only their equality matters to the
\* recorders, two of them give every case
QueueFamilyIndices == { 0, 1 }

\* QueueFamilies as the recorder sees it: compute is always resolved, a
\* dedicated transfer family is optional and never the compute family.
QueueFamilyMaps ==
  { [compute |-> c, transfer |-> t] :
      c \in QueueFamilyIndices,
      t \in ({NoFamily} \cup { << i >> : i \in QueueFamilyIndices }) } \
  { [compute |-> c, transfer |-> << c >>] : c \in QueueFamilyIndices }

\* queue_families.compute.index
compute_family(q) == q.compute

\* queue_families.transfer.unwrap_or(queue_families.compute).index
transfer_family(q) == IF q.transfer = NoFamily THEN q.compute ELSE q.transfer[1]

\* ------------------------------------------------------------- commands
ImageMemoryBarrier2(srcStage, dstStage, srcAccess, dstAccess, old, new, srcQ, dstQ, img) ==
  [ type |-> "image_barrier",
    src_stage_mask |-> srcStage, dst_stage_mask |-> dstStage,
    src_access_mask |-> srcAccess, dst_access_mask |-> dstAccess,
    old_layout |-> old, new_layout |-> new,
    src_queue_family_index |-> srcQ, dst_queue_family_index |-> dstQ,
    image |-> img ]

\* a first barrier that leaves the image in its UNDEFINED layout
prepare_image_keep_layout(img) ==
  ImageMemoryBarrier2("NONE", "CLEAR", "NONE", "TRANSFER_WRITE",
                      "UNDEFINED", "UNDEFINED",
                      QUEUE_FAMILY_IGNORED, QUEUE_FAMILY_IGNORED, img)

prepare_image(img) ==
  ImageMemoryBarrier2("NONE", "CLEAR", "NONE", "TRANSFER_WRITE",
                      "UNDEFINED", "TRANSFER_DST_OPTIMAL",
                      QUEUE_FAMILY_IGNORED, QUEUE_FAMILY_IGNORED, img)

cmd_clear_color_image(img) ==
  [ type |-> "clear", image |-> img, layout |-> "TRANSFER_DST_OPTIMAL",
    color |-> IMAGE_COLOR ]

release_dst_access_read(q, img) ==
  ImageMemoryBarrier2("CLEAR", "TRANSFER", "TRANSFER_WRITE", "TRANSFER_READ",
                      "TRANSFER_DST_OPTIMAL", "TRANSFER_SRC_OPTIMAL",
                      compute_family(q), transfer_family(q), img)

release(q, img) ==
  ImageMemoryBarrier2("CLEAR", "TRANSFER", "TRANSFER_WRITE", "NONE",
                      "TRANSFER_DST_OPTIMAL", "TRANSFER_SRC_OPTIMAL",
                      compute_family(q), transfer_family(q), img)

change_layout(img) ==
  ImageMemoryBarrier2("CLEAR", "TRANSFER", "TRANSFER_WRITE", "TRANSFER_READ",
                      "TRANSFER_DST_OPTIMAL", "TRANSFER_SRC_OPTIMAL",
                      QUEUE_FAMILY_IGNORED, QUEUE_FAMILY_IGNORED, img)

\* a recorder that takes the release branch whatever the families are
record_clear_img_always_release(q, img) ==
  << prepare_image(img), cmd_clear_color_image(img), release(q, img) >>

\* the commands record_clear_img puts between begin and end
record_clear_img(q, img) ==
  << prepare_image(img), cmd_clear_color_image(img) >> \o
  ( IF compute_family(q) # transfer_family(q)
      THEN << release(q, img) >>
      ELSE << change_layout(img) >> )

src_acquire(q, img) ==
  ImageMemoryBarrier2("TRANSFER", "COPY", "NONE", "TRANSFER_READ",
                      "TRANSFER_DST_OPTIMAL", "TRANSFER_SRC_OPTIMAL",
                      compute_family(q), transfer_family(q), img)

cmd_copy_image_to_buffer(img, buf) ==
  [ type |-> "copy", image |-> img, layout |-> "TRANSFER_SRC_OPTIMAL",
    buffer |-> buf, width |-> IMAGE_WIDTH, height |-> IMAGE_HEIGHT,
    buffer_offset |-> 0 ]

flush_host(buf) ==
  [ type |-> "buffer_barrier",
    src_stage_mask |-> "COPY", dst_stage_mask |-> "HOST",
    src_access_mask |-> "TRANSFER_WRITE", dst_access_mask |-> "HOST_READ",
    src_queue_family_index |-> QUEUE_FAMILY_IGNORED,
    dst_queue_family_index |-> QUEUE_FAMILY_IGNORED,
    buffer |-> buf, offset |-> 0, size |-> WHOLE_SIZE ]

\* a recorder that flushes to the host before the copy instead of after it
record_copy_flush_first(q, img, buf) ==
  ( IF compute_family(q) # transfer_family(q)
      THEN << src_acquire(q, img) >>
      ELSE << >> ) \o
  << flush_host(buf), cmd_copy_image_to_buffer(img, buf) >>

\* the commands record_copy_img_to_buffer puts between begin and end
record_copy_img_to_buffer(q, img, buf) ==
  ( IF compute_family(q) # transfer_family(q)
      THEN << src_acquire(q, img) >>
      ELSE << >> ) \o
  << cmd_copy_image_to_buffer(img, buf), flush_host(buf) >>

\* ------------------------------------------------------------------ state
VARIABLES
  qf,         \* the resolved queue family map
  coherent,   \* whether the readback memory type has HOST_COHERENT
  cb,         \* the two command buffers: lifecycle state and recorded commands
  pc,         \* where the host is
  nCalls,     \* public operations called so far
  nFaults,    \* device calls that returned an error so far
  nSubmit,    \* submit_and_wait calls started; the running call's handles
  sem,        \* image_clear_finished of each call
  fence,      \* all_done of each call
  queue,      \* the submissions queued on each device queue, oldest first
  submitLog,  \* every successful queue_submit, in call order
  image,      \* clear_image on the device
  buffer,     \* final_buffer on the device
  hostCache,  \* what the host sees of the mapped memory without an invalidate
  hostData,   \* what the last get_resulting_data callback was handed
  copyLog,    \* what each executed copy found when it began
  doneAt,     \* per call: whether its clear / the barrier after its clear ran
  hazards,    \* invalid uses of the device API made so far
  trail,      \* the last public call that returned, with its result
  objects,    \* the long-lived objects of the Renderer
  destroyLog, \* the long-lived objects in the order drop destroyed them
  build,      \* Renderer::initialize: the step it is at and what it created / destroyed
  families,   \* the queue family properties one adapter reports
  queue_families, \* the QueueFamilies mapped from them
  indices,    \* the family indices the accessors and the recorder resolve from it
  adapters,   \* the adapters enumerate_physical_devices returns, in order
  selected,   \* what select_physical_device returned for them
  properties, \* what one adapter reports to the checks of the first filter
  memory,     \* a memory type table and a request for a type of it
  memory_type, \* what find_optimal_memory_type returned for the request
  code,       \* a vk::Result handed to an error conversion
  converted   \* what the conversion made of it

\* the state of a constructed Renderer and its device
rendererVars == << qf, coherent, cb, pc, nCalls, nFaults, nSubmit, sem, fence, queue,
                   submitLog, image, buffer, hostCache, hostData, copyLog, doneAt,
                   hazards, trail, objects, destroyLog >>

\* the state of construction and of adapter selection
selectionVars == << families, queue_families, indices, adapters, selected >>

\* the inputs and results of the functions checked on their own
pureVars == << properties, memory, memory_type, code, converted >>

setup == << build, selectionVars, pureVars >>

vars == << rendererVars, setup >>

CallIds == 1..MaxCalls

\* CommandPools::destroy_self: both pools
CommandPools_destroy_self == << "compute_pool", "transfer_pool" >>

\* GPUData::destroy_self
GPUData_destroy_self ==
  << "clear_image", "clear_image_memory", "final_buffer", "final_buffer_memory" >>

\* the objects of a Renderer in the order Drop for Renderer destroys them
RendererObjects ==
  CommandPools_destroy_self \o GPUData_destroy_self \o
  << "device", "debug_utils", "instance" >>

Range(s) == { s[i] : i \in 1..Len(s) }

\* the objects of a Renderer in the order Renderer::initialize creates them
CreationOrder ==
  << "instance", "debug_utils", "device", "compute_pool", "transfer_pool",
     "clear_image", "clear_image_memory", "final_buffer", "final_buffer_memory" >>

\* the creation events of objs, in order
Created(objs) == [ i \in 1..Len(objs) |-> [ op |-> "create", obj |-> objs[i] ] ]

\* destroy!(a, b, ...): destroy_self on each argument, in argument order
destroy(objs) == [ i \in 1..Len(objs) |-> [ op |-> "destroy", obj |-> objs[i] ] ]

\* Renderer::initialize returned Ok: everything created, nothing destroyed
Built == [ pc |-> "built", log |-> Created(CreationOrder) ]

\* no adapter has been looked at
NoSelection == [ state |-> "unset" ]

RendererInit ==
  /\ qf \in QueueFamilyMaps
  /\ coherent \in BOOLEAN
  /\ cb = [ n \in CbNames |-> [ state |-> "Initial", cmds |-> << >> ] ]
  /\ pc = "idle"
  /\ nSubmit = 0
  /\ nCalls = 0
  /\ nFaults = 0
  /\ sem = [ i \in CallIds |-> [ status |-> "none", signaled |-> FALSE, destroys |-> 0 ] ]
  /\ fence = [ i \in CallIds |-> [ status |-> "none", signaled |-> FALSE, destroys |-> 0 ] ]
  /\ queue = [ n \in CbNames |-> << >> ]
  /\ submitLog = << >>
  /\ image = [ layout |-> "UNDEFINED", content |-> "undefined", available |-> FALSE ]
  /\ buffer = [ content |-> "undefined", available |-> FALSE ]
  /\ hostCache = "undefined"
  /\ hostData = [ len |-> 0, pixel |-> "none", after |-> << >>,
                  invalidated |-> FALSE ]
  /\ copyLog = { }
  /\ doneAt = [ i \in CallIds |-> { } ]
  /\ hazards = { }
  /\ trail = << >>
  /\ objects = [ o \in Range(RendererObjects) |-> [ live |-> TRUE, destroys |-> 0 ] ]
  /\ destroyLog = << >>

\* adapter selection is not running
SelectionIdle ==
  /\ families = << >>
  /\ queue_families = NoSelection
  /\ indices = NoSelection
  /\ adapters = << >>
  /\ selected = NoSelection

\* none of the functions checked on their own is being applied
PureIdle ==
  /\ properties = NoSelection
  /\ memory = NoSelection
  /\ memory_type = NoSelection
  /\ code = NoSelection
  /\ converted = NoSelection

\* a constructed Renderer: initialize has returned Ok and the adapter is chosen
Init ==
  /\ RendererInit
  /\ build = Built
  /\ SelectionIdle
  /\ PureIdle

\* ------------------------------------------------------------- helpers
\* the submissions still queued (Pending) that name a handle or a buffer
PendingOn(n) == Len(queue[n]) > 0
AnyPending == \E n \in CbNames : PendingOn(n)
SemInUse(id) ==
  \E n \in CbNames : \E i \in 1..Len(queue[n]) :
    queue[n][i].wait = id \/ queue[n][i].signal = id
FenceInUse(id) ==
  \E n \in CbNames : \E i \in 1..Len(queue[n]) : queue[n][i].fence = id
CbPending(name) ==
  \E n \in CbNames : \E i \in 1..Len(queue[n]) : queue[n][i].cb = name

Returned(op, res) ==
  trail' = << [ op |-> op, res |-> res ] >>

\* a device call returns res: an error is one more of the behaviour's faults
DeviceCall(res) ==
  IF res = "Ok" THEN UNCHANGED nFaults
  ELSE nFaults < MaxFaults /\ nFaults' = nFaults + 1

\* on_err with the callback run whatever the result is
on_err_always(res, op) == op

\* Result::on_err(op): what the callback op destroys, run only on Err
on_err(res, op) == IF res = "Err" THEN op ELSE { }

\* the closure destroy_objs: destroy!(&device => &image_clear_finished, &all_done)
destroy_objs == { "image_clear_finished", "all_done" }

\* DeviceManuallyDestroyed::destroy_self of the handles named in objs, then of
\* those named in more (a handle named in both is destroyed twice)
DestroySelf(objs, more, id, hz) ==
  LET times(h) == ( IF h \in objs THEN 1 ELSE 0 ) + ( IF h \in more THEN 1 ELSE 0 )
  IN
  /\ sem' = IF times("image_clear_finished") > 0
              THEN [ sem EXCEPT ![id].status = "destroyed",
                                ![id].destroys = @ + times("image_clear_finished") ]
              ELSE sem
  /\ fence' = IF times("all_done") > 0
                THEN [ fence EXCEPT ![id].status = "destroyed",
                                    ![id].destroys = @ + times("all_done") ]
                ELSE fence
  /\ hazards' = hz
       \cup ( IF times("image_clear_finished") > 0 /\ SemInUse(id)
                THEN { "semaphore_destroyed_in_use" } ELSE { } )
       \cup ( IF times("all_done") > 0 /\ FenceInUse(id)
                THEN { "fence_destroyed_in_use" } ELSE { } )
       \cup ( IF times("image_clear_finished") > 1
                 \/ ( times("image_clear_finished") = 1 /\ sem[id].status # "live" )
                THEN { "semaphore_destroyed_not_live" } ELSE { } )
       \cup ( IF times("all_done") > 1
                 \/ ( times("all_done") = 1 /\ fence[id].status # "live" )
                THEN { "fence_destroyed_not_live" } ELSE { } )

\* ------------------------------------------------------------ record_work
RecordOutcomes ==
  { "ok", "compute_reset", "compute_begin", "compute_end",
    "transfer_reset", "transfer_begin", "transfer_end" }

\* ComputeCommandBufferPool::reset / TransferCommandBufferPool::reset: whether
\* vkResetCommandPool is performed on the pool (failed: the device call failed)
reset(name, failed) == ~failed

\* Renderer::record_work, with the device call that fails (if any) as outcome
record_work(outcome) ==
  /\ pc = "idle"
  /\ nCalls < MaxCalls
  /\ nCalls' = nCalls + 1
  /\ DeviceCall(IF outcome = "ok" THEN "Ok" ELSE "Err")
  /\ LET resetC == reset("compute", outcome = "compute_reset")
         reachT == outcome \in { "ok", "transfer_reset", "transfer_begin", "transfer_end" }
         resetT == reachT /\ reset("transfer", outcome = "transfer_reset")
         clearCmds == record_clear_img(qf, clear_image)
         copyCmds == record_copy_img_to_buffer(qf, clear_image, final_buffer)
         newC == IF ~resetC THEN cb["compute"]
                 ELSE IF outcome = "compute_begin"
                   THEN [ state |-> "Initial", cmds |-> << >> ]
                 ELSE IF outcome = "compute_end"
                   THEN [ state |-> "Invalid", cmds |-> clearCmds ]
                 ELSE [ state |-> "Executable", cmds |-> clearCmds ]
         newT == IF ~resetT THEN cb["transfer"]
                 ELSE IF outcome = "transfer_begin"
                   THEN [ state |-> "Initial", cmds |-> << >> ]
                 ELSE IF outcome = "transfer_end"
                   THEN [ state |-> "Invalid", cmds |-> copyCmds ]
                 ELSE [ state |-> "Executable", cmds |-> copyCmds ]
     IN /\ cb' = [ compute |-> newC, transfer |-> newT ]
        /\ hazards' = hazards
             \cup ( IF resetC /\ CbPending("compute")
                      THEN { "compute_pool_reset_pending" } ELSE { } )
             \cup ( IF resetT /\ CbPending("transfer")
                      THEN { "transfer_pool_reset_pending" } ELSE { } )
  /\ Returned("record_work", IF outcome = "ok" THEN "Ok" ELSE "Err")
  /\ UNCHANGED << setup, qf, coherent, pc, nSubmit, sem, fence, queue, submitLog,
                  image, buffer, hostCache, hostData, copyLog, doneAt, objects,
                  destroyLog >>

\* -------------------------------------------------------- submit_and_wait
Results == { "Ok", "Err" }

\* clear_image_submit: no wait, one command buffer, signals image_clear_finished
clear_image_submit(id) ==
  [ cb |-> "compute", wait |-> NoHandle, wait_stage |-> "NONE", signal |-> id ]

\* transfer_image_submit: waits on image_clear_finished at TRANSFER, signals nothing
transfer_image_submit(id) ==
  [ cb |-> "transfer", wait |-> id, wait_stage |-> "TRANSFER", signal |-> NoHandle ]

\* the transfer submission queued before the compute submission
submit_order_swapped == << "transfer", "compute" >>

\* the order of the two queue_submit calls: queues.compute, then queues.transfer
submit_order == << "compute", "transfer" >>

\* the fence handed to queue_submit: Fence::null() for compute, all_done for transfer
submit_fence(which, id) == IF which = "compute" THEN NoHandle ELSE id

SubmitInfo(which, id) ==
  IF which = "compute" THEN clear_image_submit(id) ELSE transfer_image_submit(id)

\* let image_clear_finished = create_semaphore(&self.device)?;
create_semaphore(res) ==
  /\ pc = "idle"
  /\ nCalls < MaxCalls
  /\ nCalls' = nCalls + 1
  /\ nSubmit' = nSubmit + 1
  /\ DeviceCall(res)
  /\ IF res = "Ok"
       THEN /\ sem' = [ sem EXCEPT ![nSubmit + 1].status = "live" ]
            /\ pc' = "create_fence"
            /\ UNCHANGED trail
       ELSE /\ UNCHANGED << sem, pc >>
            /\ Returned("submit_and_wait", "Err")
  /\ UNCHANGED << setup, qf, coherent, cb, fence, queue, submitLog, image,
                  buffer, hostCache, hostData, copyLog, doneAt, hazards, objects,
                  destroyLog >>

\* let all_done = create_fence(..).on_err(|_| destroy!(.. => &image_clear_finished))?;
create_fence(res) ==
  /\ pc = "create_fence"
  /\ DeviceCall(res)
  /\ LET made == IF res = "Ok"
                   THEN [ fence EXCEPT ![nSubmit].status = "live" ]
                   ELSE fence
         gone == on_err(res, { "image_clear_finished" })
     IN /\ sem' = IF "image_clear_finished" \in gone
                    THEN [ sem EXCEPT ![nSubmit].status = "destroyed",
                                      ![nSubmit].destroys = @ + 1 ]
                    ELSE sem
        /\ fence' = made
  /\ IF res = "Ok"
       THEN pc' = "submit_first" /\ UNCHANGED trail
       ELSE pc' = "idle" /\ Returned("submit_and_wait", "Err")
  /\ UNCHANGED << setup, qf, coherent, cb, nCalls, nSubmit, queue, submitLog, image,
                  buffer, hostCache, hostData, copyLog, doneAt, hazards, objects,
                  destroyLog >>

\* device.queue_submit(queue, &[info], fence).on_err(|_| destroy_objs())?
queue_submit(which, res, okPc) ==
  LET id == nSubmit
      info == SubmitInfo(which, id)
  IN IF res = "Ok"
       THEN /\ queue' = [ queue EXCEPT ![which] = Append(@,
                 [ call |-> id, cb |-> info.cb, cmds |-> cb[info.cb].cmds,
                   wait |-> info.wait, signal |-> info.signal,
                   fence |-> submit_fence(which, id),
                   started |-> FALSE, next |-> 1 ]) ]
            /\ submitLog' = Append(submitLog,
                 [ queue |-> which, call |-> id, cb |-> info.cb, wait |-> info.wait,
                   wait_stage |-> info.wait_stage, signal |-> info.signal,
                   fence |-> submit_fence(which, id),
                   cb_state |-> cb[info.cb].state ])
            /\ cb' = [ cb EXCEPT ![info.cb].state =
                         IF @ = "Executable" THEN "Pending" ELSE @ ]
            /\ DestroySelf(on_err(res, destroy_objs), { }, id,
                 hazards \cup ( IF cb[info.cb].state # "Executable"
                                  THEN { "submitted_not_executable" } ELSE { } ))
            /\ pc' = okPc
            /\ UNCHANGED trail
       ELSE /\ DestroySelf(on_err(res, destroy_objs), { }, id, hazards)
            /\ pc' = "idle"
            /\ Returned("submit_and_wait", "Err")
            /\ UNCHANGED << queue, submitLog, cb >>

submit_first(res) ==
  /\ pc = "submit_first"
  /\ DeviceCall(res)
  /\ queue_submit(submit_order[1], res, "submit_second")
  /\ UNCHANGED << setup, qf, coherent, nCalls, nSubmit, image, buffer, hostCache,
                  hostData, copyLog, doneAt, objects, destroyLog >>

submit_second(res) ==
  /\ pc = "submit_second"
  /\ DeviceCall(res)
  /\ queue_submit(submit_order[2], res, "wait")
  /\ UNCHANGED << setup, qf, coherent, nCalls, nSubmit, image, buffer, hostCache,
                  hostData, copyLog, doneAt, objects, destroyLog >>

\* wait_for_fences(&[all_done], true, u64::MAX).on_err(|_| destroy_objs())?;
\* destroy_objs(); Ok(())
wait_for_fences(res) ==
  /\ pc = "wait"
  /\ DeviceCall(res)
  /\ res = "Ok" => fence[nSubmit].signaled
  /\ DestroySelf(on_err(res, destroy_objs),
                 IF res = "Ok" THEN destroy_objs ELSE { }, nSubmit, hazards)
  /\ pc' = "idle"
  /\ Returned("submit_and_wait", res)
  /\ UNCHANGED << setup, qf, coherent, cb, nCalls, nSubmit, queue, submitLog, image,
                  buffer, hostCache, hostData, copyLog, doneAt, objects, destroyLog >>

\* ----------------------------------------------------------------- device
\* the family of the queue a command buffer is submitted to
QueueFamilyOf(n) == IF n = "compute" THEN compute_family(qf) ELSE transfer_family(qf)

IsOwnershipTransfer(cmd) ==
  /\ cmd.type = "image_barrier"
  /\ cmd.src_queue_family_index # cmd.dst_queue_family_index

\* the image layout after a command executed on a queue of the given family:
\* a plain barrier and the acquire half of an ownership transfer perform the
\* declared transition, the release half leaves it to the acquire
LayoutAfter(cmd, family, layout) ==
  IF cmd.type # "image_barrier" THEN layout
  ELSE IF ~IsOwnershipTransfer(cmd) THEN cmd.new_layout
  ELSE IF family = cmd.src_queue_family_index THEN layout
  ELSE cmd.new_layout

\* a queue begins its oldest submission once the semaphore it waits on is signalled
device_start(n) ==
  /\ Len(queue[n]) > 0
  /\ ~queue[n][1].started
  /\ LET w == queue[n][1].wait
     IN /\ w # NoHandle => sem[w].signaled
        /\ sem' = IF w # NoHandle THEN [ sem EXCEPT ![w].signaled = FALSE ] ELSE sem
  /\ queue' = [ queue EXCEPT ![n][1].started = TRUE ]
  /\ UNCHANGED << setup, qf, coherent, cb, pc, nCalls, nFaults, nSubmit, fence, submitLog,
                  image, buffer, hostCache, hostData, copyLog, doneAt, hazards,
                  trail, objects, destroyLog >>

\* a wait on a semaphore that was destroyed while the submission was queued is
\* undefined: the queue may begin the submission without the signal
device_start_undefined(n) ==
  /\ Len(queue[n]) > 0
  /\ ~queue[n][1].started
  /\ queue[n][1].wait # NoHandle
  /\ sem[queue[n][1].wait].status = "destroyed"
  /\ ~sem[queue[n][1].wait].signaled
  /\ queue' = [ queue EXCEPT ![n][1].started = TRUE ]
  /\ UNCHANGED << setup, qf, coherent, cb, pc, nCalls, nFaults, nSubmit, sem, fence,
                  submitLog, image, buffer, hostCache, hostData, copyLog, doneAt,
                  hazards, trail, objects, destroyLog >>

\* the queue executes the next command of its running submission
device_exec(n) ==
  /\ Len(queue[n]) > 0
  /\ queue[n][1].started
  /\ queue[n][1].next <= Len(queue[n][1].cmds)
  /\ LET s == queue[n][1]
         cmd == s.cmds[s.next]
         family == QueueFamilyOf(n)
     IN /\ queue' = [ queue EXCEPT ![n][1].next = @ + 1 ]
        /\ CASE cmd.type = "image_barrier" ->
                  /\ image' = [ image EXCEPT
                       !.layout = LayoutAfter(cmd, family, image.layout),
                       !.content = IF cmd.old_layout = "UNDEFINED" THEN "undefined" ELSE @,
                       !.available =
                         IF cmd.old_layout = "UNDEFINED" THEN FALSE
                         ELSE IF cmd.src_access_mask = "TRANSFER_WRITE" THEN TRUE
                         ELSE @ ]
                  /\ doneAt' = IF cmd.src_access_mask = "TRANSFER_WRITE"
                                 THEN [ doneAt EXCEPT ![s.call] = @ \cup { "made_available" } ]
                                 ELSE doneAt
                  /\ UNCHANGED << buffer, copyLog >>
             [] cmd.type = "clear" ->
                  /\ image' = [ image EXCEPT !.content = cmd.color, !.available = FALSE ]
                  /\ doneAt' = [ doneAt EXCEPT ![s.call] = @ \cup { "clear" } ]
                  /\ UNCHANGED << buffer, copyLog >>
             [] cmd.type = "copy" ->
                  /\ copyLog' = copyLog \cup
                       { [ call |-> s.call,
                           clear_done |-> "clear" \in doneAt[s.call],
                           made_available |-> "made_available" \in doneAt[s.call],
                           layout |-> image.layout ] }
                  /\ \E v \in { image.content } \cup
                              ( IF image.available THEN { } ELSE { "undefined" } ) :
                       buffer' = [ content |-> v, available |-> FALSE ]
                  /\ UNCHANGED << image, doneAt >>
             [] cmd.type = "buffer_barrier" ->
                  /\ buffer' = [ buffer EXCEPT !.available = TRUE ]
                  /\ UNCHANGED << image, copyLog, doneAt >>
  /\ UNCHANGED << setup, qf, coherent, cb, pc, nCalls, nFaults, nSubmit, sem, fence,
                  submitLog, hostCache, hostData, hazards, trail, objects, destroyLog >>

\* the submission has run all its commands: its semaphore and fence are signalled,
\* it leaves the queue and its one-time-submit command buffer becomes invalid
device_complete(n) ==
  /\ Len(queue[n]) > 0
  /\ queue[n][1].started
  /\ queue[n][1].next > Len(queue[n][1].cmds)
  /\ LET s == queue[n][1]
     IN /\ sem' = IF s.signal # NoHandle
                    THEN [ sem EXCEPT ![s.signal].signaled = TRUE ] ELSE sem
        /\ fence' = IF s.fence # NoHandle
                      THEN [ fence EXCEPT ![s.fence].signaled = TRUE ] ELSE fence
        /\ cb' = [ cb EXCEPT ![s.cb].state =
                     IF @ = "Pending" /\ Len(queue[n]) = 1 THEN "Invalid" ELSE @ ]
  /\ queue' = [ queue EXCEPT ![n] = Tail(@) ]
  /\ UNCHANGED << setup, qf, coherent, pc, nCalls, nFaults, nSubmit, submitLog, image,
                  buffer, hostCache, hostData, copyLog, doneAt, hazards, trail,
                  objects, destroyLog >>

\* ------------------------------------------------------ get_resulting_data
\* GPUData.final_buffer_size: the buffer_size initialize() was given
final_buffer_size == buffer_size

\* whether get_buffer_data invalidates the mapped range before the host reads
get_buffer_data_invalidates == FALSE

\* Renderer::get_resulting_data -> GPUData::get_buffer_data: map, hand the
\* mapped bytes to the callback, unmap
get_resulting_data(res) ==
  /\ pc = "idle"
  /\ nCalls < MaxCalls
  /\ nCalls' = nCalls + 1
  /\ DeviceCall(res)
  /\ IF res = "Ok"
       THEN /\ \E v \in ( IF ( coherent \/ get_buffer_data_invalidates )
                               /\ buffer.available
                               /\ ~CbPending("transfer")
                            THEN { buffer.content }
                            ELSE { buffer.content, hostCache } ) :
                 /\ hostData' = [ len |-> final_buffer_size, pixel |-> v,
                                   after |-> trail,
                                   invalidated |-> get_buffer_data_invalidates ]
                 /\ hostCache' = v
            /\ hazards' = hazards \cup
                 ( IF CbPending("transfer") THEN { "host_read_while_pending" } ELSE { } )
       ELSE UNCHANGED << hostData, hostCache, hazards >>
  /\ Returned("get_resulting_data", res)
  /\ UNCHANGED << setup, qf, coherent, cb, pc, nSubmit, sem, fence, queue,
                  submitLog, image, buffer, copyLog, doneAt, objects, destroyLog >>

\* --------------------------------------------------------------------- drop
\* a device_wait_idle that returns without waiting
device_wait_idle_returns_early(res) == TRUE

\* device_wait_idle returns Ok only once no submission is Pending
device_wait_idle(res) == res = "Ok" => ~AnyPending

\* Drop for Renderer: wait for the device, then destroy command pools, GPU data,
\* device, debug utils and instance; a failed wait panics before any destroy
drop(res) ==
  /\ pc = "idle"
  /\ device_wait_idle(res)
  /\ DeviceCall(res)
  /\ IF res = "Ok"
       THEN /\ objects' = [ o \in DOMAIN objects |->
                              [ live |-> FALSE, destroys |-> objects[o].destroys + 1 ] ]
            /\ destroyLog' = RendererObjects
            /\ hazards' = hazards \cup
                 ( IF AnyPending THEN { "object_destroyed_in_use" } ELSE { } )
            /\ pc' = "dropped"
       ELSE /\ pc' = "panicked"
            /\ UNCHANGED << objects, destroyLog, hazards >>
  /\ UNCHANGED << setup, qf, coherent, cb, nCalls, nSubmit, sem, fence, queue,
                  submitLog, image, buffer, hostCache, hostData, copyLog, doneAt, trail >>

\* ------------------------------------------------------ Renderer::initialize
\* what a step creates: objs when it returns Ok, nothing when it returns Err
made_if(ok, objs) == IF ok THEN objs ELSE << >>

\* One step of Renderer::initialize or of the constructors it calls: the step
\* creates `made`; when it fails the caller's error path destroys `undone`
\* in that order and initialize returns Err.
InitializeStep(ok, to, made, undone) ==
  /\ build' = [ pc  |-> IF ok THEN to ELSE "failed",
                log |-> build.log \o Created(made)
                                 \o (IF ok THEN << >> ELSE destroy(undone)) ]
  /\ UNCHANGED << rendererVars, selectionVars, pureVars >>

\* on_err of select_physical_device and create_logical_device, and the None arm
on_err_instance == << "debug_utils", "instance" >>

\* on_err of CommandPools::new
on_err_device == << "device", "debug_utils", "instance" >>

\* on_err of GPUData::new; &command_pools destroys the compute pool, then
\* the transfer pool
on_err_command_pools ==
  << "compute_pool", "transfer_pool", "device", "debug_utils", "instance" >>

\* CommandPools::new when the transfer pool cannot be created: the compute
\* pool, already created, is destroyed before the error is returned
CommandPools_new_rollback == << "compute_pool" >>

create_instance(res) ==
  /\ build.pc = "create_instance"
  /\ InitializeStep(res = "Ok", "select",
                      made_if(res = "Ok", << "instance", "debug_utils" >>), << >>)

SelectOutcomes == { "Some", "None", "Err" }

PhysicalDevice_select(out) ==
  /\ build.pc = "select"
  /\ InitializeStep(out = "Some", "create_logical_device",
                      << >>, on_err_instance)

create_logical_device(res) ==
  /\ build.pc = "create_logical_device"
  /\ InitializeStep(res = "Ok", "compute_pool",
                      made_if(res = "Ok", << "device" >>), on_err_instance)

\* a pool constructor fails at create_command_pool, fails at
\* allocate_primary_command_buffers, or succeeds
PoolOutcomes == { "create_command_pool", "allocate_primary_command_buffers", "Ok" }

\* the pool exists once create_command_pool has returned Ok; the `?` on the
\* allocation returns without touching it
pool_made(out, pool) == IF out = "create_command_pool" THEN << >> ELSE << pool >>

ComputeCommandBufferPool_create(out) ==
  /\ build.pc = "compute_pool"
  /\ InitializeStep(out = "Ok", "transfer_pool",
                      pool_made(out, "compute_pool"), on_err_device)

TransferCommandBufferPool_create(out) ==
  /\ build.pc = "transfer_pool"
  /\ InitializeStep(out = "Ok", "create_image",
                      pool_made(out, "transfer_pool"),
                      CommandPools_new_rollback \o on_err_device)

create_image(res) ==
  /\ build.pc = "create_image"
  /\ InitializeStep(res = "Ok", "clear_image_memory",
                      made_if(res = "Ok", << "clear_image" >>), on_err_command_pools)

\* allocate_and_bind_memory(preferred flags).or_else(fallback flags)
AllocateOutcomes == { "preferred", "fallback", "Err" }

allocate_clear_image_memory(out) ==
  /\ build.pc = "clear_image_memory"
  /\ InitializeStep(out # "Err", "create_buffer",
                      made_if(out # "Err", << "clear_image_memory" >>),
                      << "clear_image" >> \o on_err_command_pools)

gpu_data_on_err_buffer == << "clear_image_memory", "clear_image" >>

create_buffer(res) ==
  /\ build.pc = "create_buffer"
  /\ InitializeStep(res = "Ok", "final_buffer_memory",
                      made_if(res = "Ok", << "final_buffer" >>),
                      gpu_data_on_err_buffer \o on_err_command_pools)

gpu_data_on_err_buffer_memory ==
  << "clear_image_memory", "clear_image", "final_buffer" >>

allocate_final_buffer_memory(out) ==
  /\ build.pc = "final_buffer_memory"
  /\ InitializeStep(out # "Err", "built",
                      made_if(out # "Err", << "final_buffer_memory" >>),
                      gpu_data_on_err_buffer_memory \o on_err_command_pools)

\* ------------------------------------------------------ queue family map
\* the capabilities a queue family may report
QueueFlags == { "GRAPHICS", "COMPUTE", "TRANSFER" }

\* the most queue families an adapter reports
MaxFamilies == 3

\* get_physical_device_queue_family_properties: the flags of each family
FamilyLists ==
  UNION { [ 1..n -> SUBSET QueueFlags ] : n \in 0..MaxFamilies }

\* graphics, compute and transfer before the loop
NoneRecorded == [ graphics |-> NoFamily, compute |-> NoFamily, transfer |-> NoFamily ]

\* a loop body that records as compute any family with COMPUTE
visit_any_compute(acc, i, flags) ==
  IF "GRAPHICS" \in flags /\ acc.graphics = NoFamily
    THEN [ acc EXCEPT !.graphics = << i >> ]
    ELSE IF "COMPUTE" \in flags /\ acc.compute = NoFamily
      THEN [ acc EXCEPT !.compute = << i >> ]
      ELSE IF "TRANSFER" \in flags /\ acc.transfer = NoFamily
        THEN [ acc EXCEPT !.transfer = << i >> ]
        ELSE acc

\* the body of the loop over the families: family i with these flags
visit(acc, i, flags) ==
  IF "GRAPHICS" \in flags
    THEN IF acc.graphics = NoFamily THEN [ acc EXCEPT !.graphics = << i >> ] ELSE acc
    ELSE IF "COMPUTE" \in flags
      THEN IF acc.compute = NoFamily THEN [ acc EXCEPT !.compute = << i >> ] ELSE acc
      ELSE IF "TRANSFER" \in flags
        THEN IF acc.transfer = NoFamily THEN [ acc EXCEPT !.transfer = << i >> ] ELSE acc
        ELSE acc

\* the loop, from the family at position k on; enumerate() counts from 0
RECURSIVE scan(_, _, _)
scan(fams, k, acc) ==
  IF k > Len(fams) THEN acc ELSE scan(fams, k + 1, visit(acc, k - 1, fams[k]))

\* a collection that puts the graphics index in the place of an absent family
unique_indices_of_with_fallbacks(acc) ==
  acc.graphics \o (IF acc.compute = NoFamily THEN acc.graphics ELSE acc.compute)
               \o (IF acc.transfer = NoFamily THEN acc.graphics ELSE acc.transfer)

\* [graphics, compute, transfer].filter_map(index).collect()
unique_indices_of(acc) == acc.graphics \o acc.compute \o acc.transfer

\* a closure that keeps an adapter without a graphics family, with family 0
\* in its place
map_families_any(fams) ==
  LET acc == scan(fams, 1, NoneRecorded)
  IN  [ state |-> "mapped",
        graphics |-> IF acc.graphics = NoFamily THEN 0 ELSE acc.graphics[1],
        compute |-> acc.compute, transfer |-> acc.transfer,
        unique_indices |-> unique_indices_of(acc) ]

\* the filter_map closure: None without a graphics family, else QueueFamilies
map_families(fams) ==
  LET acc == scan(fams, 1, NoneRecorded)
  IN  IF acc.graphics = NoFamily
        THEN [ state |-> "skipped" ]
        ELSE [ state |-> "mapped", graphics |-> acc.graphics[1],
               compute |-> acc.compute, transfer |-> acc.transfer,
               unique_indices |-> unique_indices_of(acc) ]

get_compute_index(q) == IF q.compute # NoFamily THEN q.compute[1] ELSE q.graphics

\* an accessor that falls back to the compute family
get_transfer_index_or_compute(q) ==
  IF q.transfer # NoFamily THEN q.transfer[1] ELSE get_compute_index(q)

get_transfer_index(q) == IF q.transfer # NoFamily THEN q.transfer[1] ELSE q.graphics

\* the map the command recorder is handed: its compute field is never absent
recorder_queue_families(q) ==
  [ compute |-> get_compute_index(q), transfer |-> q.transfer ]

\* one adapter's families are mapped
map_queue_families ==
  /\ queue_families = NoSelection
  /\ queue_families' = map_families(families)
  /\ UNCHANGED << rendererVars, build, pureVars, families, indices, adapters, selected >>

\* the accessors and the recorder resolve their family indices from the map
resolve_indices ==
  /\ queue_families.state = "mapped"
  /\ indices = NoSelection
  /\ indices' = [ state |-> "resolved",
                  compute |-> get_compute_index(queue_families),
                  transfer |-> get_transfer_index(queue_families),
                  recorder_transfer |->
                    transfer_family(recorder_queue_families(queue_families)) ]
  /\ UNCHANGED << rendererVars, build, pureVars, families, queue_families, adapters, selected >>

\* ---------------------------------------------------- select_physical_device
\* the most adapters enumerate_physical_devices returns
MaxAdapters == 2

DeviceTypes ==
  { "DISCRETE_GPU", "INTEGRATED_GPU", "VIRTUAL_GPU", "CPU", "OTHER", "unknown" }

\* the checks of the first filter, in the order it makes them
FilterChecks == << "api_version", "extensions", "format", "image_size" >>

\* the queue family lists the adapters are drawn with: no graphics family,
\* graphics only, graphics with dedicated compute and / or transfer, and a
\* graphics family that is not the first
AdapterFamilies ==
  { << { "COMPUTE", "TRANSFER" } >>,
    << { "GRAPHICS", "COMPUTE", "TRANSFER" } >>,
    << { "GRAPHICS", "COMPUTE", "TRANSFER" }, { "COMPUTE", "TRANSFER" } >>,
    << { "GRAPHICS", "COMPUTE", "TRANSFER" }, { "TRANSFER" } >>,
    << { "GRAPHICS", "COMPUTE", "TRANSFER" }, { "COMPUTE", "TRANSFER" }, { "TRANSFER" } >>,
    << { "TRANSFER" }, { "GRAPHICS", "COMPUTE", "TRANSFER" } >> }

\* an adapter: the first check of the filter it fails ("none": it passes
\* all), its device type and its queue families. The filter returns at the
\* first failed check and a rejected adapter's type and families are never
\* read, so the rejected adapters are drawn with one type and one list.
Adapters ==
  { [ rejected_by |-> "none", device_type |-> t, families |-> f ] :
      t \in DeviceTypes, f \in AdapterFamilies } \cup
  { [ rejected_by |-> c, device_type |-> "DISCRETE_GPU",
      families |-> << { "GRAPHICS", "COMPUTE", "TRANSFER" },
                      { "COMPUTE", "TRANSFER" }, { "TRANSFER" } >> ] :
      c \in Range(FilterChecks) }

\* the first filter closure
supported(a) == a.rejected_by = "none"

\* .filter(..).filter_map(..) from adapter k on: the adapters that pass,
\* each with its position and its QueueFamilies, in enumeration order
RECURSIVE candidates(_, _)
candidates(ads, k) ==
  IF k > Len(ads)
    THEN << >>
    ELSE LET q == map_families(ads[k].families)
         IN  ( IF supported(ads[k]) /\ q.state = "mapped"
                 THEN << [ adapter |-> k, device_type |-> ads[k].device_type,
                           queue_families |-> q ] >>
                 ELSE << >> ) \o candidates(ads, k + 1)

queue_family_importance == 3

device_score_importance == 0

\* a ranking that prefers integrated adapters to discrete ones
device_score_integrated_first(t) ==
  CASE t = "INTEGRATED_GPU" -> 0
    [] t = "DISCRETE_GPU" -> 1
    [] t = "VIRTUAL_GPU" -> 2
    [] t = "CPU" -> 3
    [] t = "OTHER" -> 4
    [] OTHER -> 5

device_score(t) ==
  CASE t = "DISCRETE_GPU" -> 0
    [] t = "INTEGRATED_GPU" -> 1
    [] t = "VIRTUAL_GPU" -> 2
    [] t = "CPU" -> 3
    [] t = "OTHER" -> 4
    [] OTHER -> 5

\* 3 - families.unique_indices.len()
queue_score(q) == 3 - Len(q.unique_indices)

\* a key in which the device type outweighs the queue families
score_type_first(c) ==
  queue_score(c.queue_families) * 2 ^ device_score_importance
    + device_score(c.device_type) * 2 ^ queue_family_importance

\* the key closure of min_by_key; x << n is x * 2^n
score(c) ==
  queue_score(c.queue_families) * 2 ^ queue_family_importance
    + device_score(c.device_type) * 2 ^ device_score_importance

\* Iterator::min_by_key from candidate k on: a later candidate replaces the
\* best so far only with a strictly smaller key
RECURSIVE min_by_key(_, _, _)
min_by_key(cands, k, best) ==
  IF k > Len(cands)
    THEN best
    ELSE min_by_key(cands, k + 1,
                    IF score(cands[k]) < score(best) THEN cands[k] ELSE best)

select_physical_device ==
  /\ selected = NoSelection
  /\ LET cands == candidates(adapters, 1)
     IN  selected' = IF cands = << >>
                       THEN [ state |-> "none" ]
                       ELSE [ state |-> "some" ] @@ min_by_key(cands, 2, cands[1])
  /\ UNCHANGED << rendererVars, build, pureVars, families, queue_families, indices, adapters >>

\* PhysicalDevice::select of physical_device.rs, the one main calls:
\* select_physical_device(instance).expect(..) panics on None
PhysicalDevice_select_expect ==
  /\ selected.state \in { "some", "none" }
  /\ "outcome" \notin DOMAIN selected
  /\ selected' = selected @@
       [ outcome |-> IF selected.state = "some" THEN "PhysicalDevice" ELSE "panic" ]
  /\ UNCHANGED << rendererVars, build, pureVars, families, queue_families, indices, adapters >>

\* ------------------------------------------------------ the first filter
\* vk::API_VERSION_1_3
TARGET_API_VERSION == 4206592

\* 1.2.4095, 1.3.0 and 1.4.0
ApiVersions == { TARGET_API_VERSION - 1, TARGET_API_VERSION, 4210688 }

ExtensionNames == { "VK_KHR_swapchain" }

FormatFeatures == { "TRANSFER_SRC", "TRANSFER_DST" }

REQUIRED_FORMAT_IMAGE_FLAGS_OPTIMAL == { "TRANSFER_SRC", "TRANSFER_DST" }

REQUIRED_FORMAT_IMAGE_FLAGS_LINEAR == { "TRANSFER_DST" }

\* max_extent of get_physical_device_image_format_properties
Extents ==
  [ width : { IMAGE_WIDTH - 1, IMAGE_WIDTH }, height : { IMAGE_HEIGHT - 1, IMAGE_HEIGHT } ]

\* what one adapter reports, and the REQUIRED_DEVICE_EXTENSIONS of the build
\* (empty in main.rs; drawn here so that the extension check decides)
DeviceProperties ==
  [ state : { "reported" },
    api_version : ApiVersions,
    extensions : SUBSET ExtensionNames,
    required_extensions : SUBSET ExtensionNames,
    optimal_tiling_features : SUBSET FormatFeatures,
    linear_tiling_features : SUBSET FormatFeatures,
    linear_max_extent : Extents,
    optimal_max_extent : Extents ]

\* utility::not_in_slice: the required elements that are not available
not_in_slice(available, required) == required \ available

check_extension_support(p) ==
  not_in_slice(p.extensions, p.required_extensions) = { }

check_format_support(p) ==
  IF ~( REQUIRED_FORMAT_IMAGE_FLAGS_OPTIMAL \subseteq p.optimal_tiling_features )
    THEN FALSE
    ELSE IF ~( REQUIRED_FORMAT_IMAGE_FLAGS_LINEAR \subseteq p.linear_tiling_features )
      THEN FALSE
      ELSE TRUE

\* a size check that compares the width only
check_image_size_support_width_only(max_extent) ==
  IMAGE_WIDTH <= max_extent.width

check_image_size_support(max_extent) ==
  IMAGE_WIDTH <= max_extent.width /\ IMAGE_HEIGHT <= max_extent.height

check_linear_tiling_image_size_support(p) ==
  check_image_size_support(p.linear_max_extent)

check_optimal_tiling_image_size_support(p) ==
  check_image_size_support(p.optimal_max_extent)

\* the first filter closure of select_physical_device: the check at which it
\* returns false, "none" when it returns true
first_failed_check(p) ==
  IF p.api_version < TARGET_API_VERSION
    THEN "api_version"
    ELSE IF ~check_extension_support(p)
      THEN "extensions"
      ELSE IF ~check_format_support(p)
        THEN "format"
        ELSE IF ~check_linear_tiling_image_size_support(p)
                \/ ~check_optimal_tiling_image_size_support(p)
          THEN "image_size"
          ELSE "none"

\* one adapter is enumerated and the first filter is applied to what it
\* reports
filter_physical_device ==
  /\ properties # NoSelection
  /\ properties.state = "reported"
  /\ adapters = << >>
  /\ selected = NoSelection
  /\ properties' = [ properties EXCEPT !.state = "filtered" ]
  /\ adapters' = << [ rejected_by |-> first_failed_check(properties),
                      device_type |-> "DISCRETE_GPU",
                      families |-> << { "GRAPHICS", "COMPUTE", "TRANSFER" } >> ] >>
  /\ UNCHANGED << rendererVars, build, families, queue_families, indices, selected,
                  memory, memory_type, code, converted >>

\* ------------------------------------------------ find_optimal_memory_type
\* the most entries of the memory type table
MaxMemoryTypes == 3

MemoryPropertyFlags == { "HOST_VISIBLE", "HOST_CACHED" }

\* mem_properties.memory_types: the property flags of each type
MemoryTypeTables ==
  UNION { [ 1..n -> SUBSET MemoryPropertyFlags ] : n \in 0..MaxMemoryTypes }

\* a table, a memoryTypeBits mask and the two property sets asked for
MemoryRequests ==
  [ memory_types : MemoryTypeTables,
    required_memory_type_bits : 0..(2 ^ MaxMemoryTypes - 1),
    required_properties : SUBSET MemoryPropertyFlags,
    optional_properties : SUBSET MemoryPropertyFlags ]

\* required_memory_type_bits & (1 << i) > 0
valid_type(bits, i) == ( bits \div 2 ^ i ) % 2 = 1

\* a search that does not look at the type bits
RECURSIVE find_memory_type_any_bits(_, _, _, _)
find_memory_type_any_bits(types, k, bits, props) ==
  IF k > Len(types)
    THEN [ ok |-> FALSE ]
    ELSE IF props \subseteq types[k]
      THEN [ ok |-> TRUE, index |-> k - 1 ]
      ELSE find_memory_type_any_bits(types, k + 1, bits, props)

\* PhysicalDevice::find_memory_type, its loop from position k on; type i of
\* enumerate() is at position i + 1
RECURSIVE find_memory_type(_, _, _, _)
find_memory_type(types, k, bits, props) ==
  IF k > Len(types)
    THEN [ ok |-> FALSE ]
    ELSE IF valid_type(bits, k - 1) /\ props \subseteq types[k]
      THEN [ ok |-> TRUE, index |-> k - 1 ]
      ELSE find_memory_type(types, k + 1, bits, props)

\* a search that never asks for the optional properties
find_required_memory_type(types, bits, required, optional) ==
  find_memory_type(types, 1, bits, required)

find_optimal_memory_type(types, bits, required, optional) ==
  LET optimal == find_memory_type(types, 1, bits, required \cup optional)
  IN  IF optimal.ok THEN optimal ELSE find_memory_type(types, 1, bits, required)

\* find_optimal_memory_type is called with the request
call_find_optimal_memory_type ==
  /\ memory # NoSelection
  /\ memory_type = NoSelection
  /\ memory_type' = find_optimal_memory_type(memory.memory_types,
                                              memory.required_memory_type_bits,
                                              memory.required_properties,
                                              memory.optional_properties)
  /\ UNCHANGED << rendererVars, build, selectionVars, properties, memory, code, converted >>

\* ------------------------------------------------------ error conversions
\* the codes of vk::Result
VkResults ==
  { "SUCCESS", "NOT_READY", "TIMEOUT", "EVENT_SET", "EVENT_RESET", "INCOMPLETE",
    "ERROR_OUT_OF_HOST_MEMORY", "ERROR_OUT_OF_DEVICE_MEMORY",
    "ERROR_INITIALIZATION_FAILED", "ERROR_DEVICE_LOST", "ERROR_MEMORY_MAP_FAILED",
    "ERROR_LAYER_NOT_PRESENT", "ERROR_EXTENSION_NOT_PRESENT",
    "ERROR_FEATURE_NOT_PRESENT", "ERROR_INCOMPATIBLE_DRIVER",
    "ERROR_TOO_MANY_OBJECTS", "ERROR_FORMAT_NOT_SUPPORTED", "ERROR_FRAGMENTED_POOL",
    "ERROR_UNKNOWN", "ERROR_OUT_OF_POOL_MEMORY", "ERROR_INVALID_EXTERNAL_HANDLE",
    "ERROR_FRAGMENTATION", "ERROR_INVALID_OPAQUE_CAPTURE_ADDRESS",
    "ERROR_SURFACE_LOST_KHR", "ERROR_NATIVE_WINDOW_IN_USE_KHR", "SUBOPTIMAL_KHR",
    "ERROR_OUT_OF_DATE_KHR" }

\* the error types with a From<vk::Result>
ErrorTypes ==
  { "OutOfMemoryError", "QueueSubmitError", "InitializationError", "FrameRenderError" }

\* what a conversion ends in when it panics
Panic == << "panic" >>

\* From<vk::Result> for OutOfMemoryError
OutOfMemoryError_from(value) ==
  CASE value = "ERROR_OUT_OF_DEVICE_MEMORY" -> << "OutOfDeviceMemory" >>
    [] value = "ERROR_OUT_OF_HOST_MEMORY" -> << "OutOfHostMemory" >>
    [] OTHER -> Panic

\* From<vk::Result> for QueueSubmitError
QueueSubmitError_from(value) ==
  CASE value \in { "ERROR_OUT_OF_DEVICE_MEMORY", "ERROR_OUT_OF_HOST_MEMORY" } ->
         << "OutOfMemory" >> \o OutOfMemoryError_from(value)
    [] value = "ERROR_DEVICE_LOST" -> << "DeviceIsLost" >>
    [] OTHER -> Panic

\* From<vk::Result> for InitializationError
InitializationError_from(value) ==
  CASE value \in { "ERROR_OUT_OF_DEVICE_MEMORY", "ERROR_OUT_OF_HOST_MEMORY" } ->
         << "GenericOutOfMemoryError" >> \o OutOfMemoryError_from(value)
    [] value = "ERROR_DEVICE_LOST" -> << "DeviceIsLost" >>
    [] value = "ERROR_UNKNOWN" -> << "Unknown" >>
    [] value = "ERROR_INITIALIZATION_FAILED" -> << "Unknown" >>
    [] OTHER -> << "Unknown" >>

\* From<vk::Result> for FrameRenderError
FrameRenderError_from(value) ==
  CASE value \in { "ERROR_OUT_OF_HOST_MEMORY", "ERROR_OUT_OF_DEVICE_MEMORY" } ->
         << "OutOfMemory" >> \o OutOfMemoryError_from(value)
    [] value = "ERROR_DEVICE_LOST" -> << "DeviceLost" >>
    [] OTHER -> Panic

\* T::from(value) for the error type T
from(target, value) ==
  CASE target = "OutOfMemoryError" -> OutOfMemoryError_from(value)
    [] target = "QueueSubmitError" -> QueueSubmitError_from(value)
    [] target = "InitializationError" -> InitializationError_from(value)
    [] target = "FrameRenderError" -> FrameRenderError_from(value)

\* the code is converted into the error type target
convert(target) ==
  /\ code # NoSelection
  /\ converted = NoSelection
  /\ converted' = [ target |-> target, value |-> from(target, code.value) ]
  /\ UNCHANGED << rendererVars, build, selectionVars, properties, memory,
                  memory_type, code >>

\* ------------------------------------------------------------ specification
Next ==
  \/ \E o \in RecordOutcomes : record_work(o)
  \/ \E r \in Results : create_semaphore(r)
  \/ \E r \in Results : create_fence(r)
  \/ \E r \in Results : submit_first(r)
  \/ \E r \in Results : submit_second(r)
  \/ \E r \in Results : wait_for_fences(r)
  \/ \E r \in Results : get_resulting_data(r)
  \/ \E r \in Results : drop(r)
  \/ \E n \in CbNames : device_start(n)
  \/ \E n \in CbNames : device_start_undefined(n)
  \/ \E n \in CbNames : device_exec(n)
  \/ \E n \in CbNames : device_complete(n)

Spec == Init /\ [][Next]_vars

\* the recorders alone: record_work applied to every queue family map
RecordNext == \E o \in RecordOutcomes : record_work(o)

RecordSpec == Init /\ [][RecordNext]_vars

\* Renderer::initialize from its first line, every fallible step drawing its
\* result
InitializeInit ==
  /\ RendererInit
  /\ build = [ pc |-> "create_instance", log |-> << >> ]
  /\ SelectionIdle
  /\ PureIdle

InitializeNext ==
  \/ \E r \in Results : create_instance(r)
  \/ \E o \in SelectOutcomes : PhysicalDevice_select(o)
  \/ \E r \in Results : create_logical_device(r)
  \/ \E o \in PoolOutcomes : ComputeCommandBufferPool_create(o)
  \/ \E o \in PoolOutcomes : TransferCommandBufferPool_create(o)
  \/ \E r \in Results : create_image(r)
  \/ \E o \in AllocateOutcomes : allocate_clear_image_memory(o)
  \/ \E r \in Results : create_buffer(r)
  \/ \E o \in AllocateOutcomes : allocate_final_buffer_memory(o)

InitializeSpec == InitializeInit /\ [][InitializeNext]_vars

\* the mapping and the accessors applied to every list of queue families
MapInit ==
  /\ RendererInit
  /\ qf = [ compute |-> 0, transfer |-> NoFamily ]
  /\ ~coherent
  /\ build = Built
  /\ families \in FamilyLists
  /\ queue_families = NoSelection
  /\ indices = NoSelection
  /\ adapters = << >>
  /\ selected = NoSelection
  /\ PureIdle

MapNext ==
  \/ map_queue_families
  \/ resolve_indices

MapSpec == MapInit /\ [][MapNext]_vars

\* select_physical_device applied to every list of adapters
SelectInit ==
  /\ RendererInit
  /\ qf = [ compute |-> 0, transfer |-> NoFamily ]
  /\ ~coherent
  /\ build = Built
  /\ families = << >>
  /\ queue_families = NoSelection
  /\ indices = NoSelection
  /\ adapters \in UNION { [ 1..n -> Adapters ] : n \in 0..MaxAdapters }
  /\ selected = NoSelection
  /\ PureIdle

SelectNext ==
  \/ select_physical_device
  \/ PhysicalDevice_select_expect

SelectSpec == SelectInit /\ [][SelectNext]_vars

\* the first filter applied to everything one adapter can report, then the
\* selection over that adapter
FilterInit ==
  /\ RendererInit
  /\ qf = [ compute |-> 0, transfer |-> NoFamily ]
  /\ ~coherent
  /\ build = Built
  /\ SelectionIdle
  /\ properties \in DeviceProperties
  /\ memory = NoSelection
  /\ memory_type = NoSelection
  /\ code = NoSelection
  /\ converted = NoSelection

FilterNext ==
  \/ filter_physical_device
  \/ select_physical_device
  \/ PhysicalDevice_select_expect

FilterSpec == FilterInit /\ [][FilterNext]_vars

\* find_optimal_memory_type applied to every table and request
MemoryInit ==
  /\ RendererInit
  /\ qf = [ compute |-> 0, transfer |-> NoFamily ]
  /\ ~coherent
  /\ build = Built
  /\ SelectionIdle
  /\ properties = NoSelection
  /\ memory \in MemoryRequests
  /\ memory_type = NoSelection
  /\ code = NoSelection
  /\ converted = NoSelection

MemoryNext == call_find_optimal_memory_type

MemorySpec == MemoryInit /\ [][MemoryNext]_vars

\* every conversion applied to every code
ErrorInit ==
  /\ RendererInit
  /\ qf = [ compute |-> 0, transfer |-> NoFamily ]
  /\ ~coherent
  /\ build = Built
  /\ SelectionIdle
  /\ properties = NoSelection
  /\ memory = NoSelection
  /\ memory_type = NoSelection
  /\ code \in [ value : VkResults ]
  /\ converted = NoSelection

ErrorNext == \E t \in ErrorTypes : convert(t)

ErrorSpec == ErrorInit /\ [][ErrorNext]_vars

\* ------------------------------------------------------------------ claims
Recorded(name) == cb[name].cmds # << >>
BothRecorded == Recorded("compute") /\ Recorded("transfer")
CrossFamily == compute_family(qf) # transfer_family(qf)

\* the positions of the queue-family-indexed image barriers of a sequence
OwnershipBarriers(cmds) ==
  { i \in 1..Len(cmds) :
      /\ cmds[i].type = "image_barrier"
      /\ \/ cmds[i].src_queue_family_index # QUEUE_FAMILY_IGNORED
         \/ cmds[i].dst_queue_family_index # QUEUE_FAMILY_IGNORED }

TheOne(S) == CHOOSE x \in S : TRUE

LastReturn == IF trail = << >> THEN [ op |-> "none", res |-> "none" ] ELSE trail[Len(trail)]

\* C1: recording the clear and then the copy yields no queue-family-indexed
\* image barrier when the two families are equal, and exactly one release in
\* the compute sequence and one acquire in the transfer sequence when they
\* differ, both naming the same image, TRANSFER_DST_OPTIMAL ->
\* TRANSFER_SRC_OPTIMAL and (src = compute family, dst = transfer family).
C1_MatchedOwnershipPair ==
  BothRecorded =>
    LET c == cb["compute"].cmds
        t == cb["transfer"].cmds
    IN IF ~CrossFamily
         THEN OwnershipBarriers(c) = { } /\ OwnershipBarriers(t) = { }
         ELSE /\ Cardinality(OwnershipBarriers(c)) = 1
              /\ Cardinality(OwnershipBarriers(t)) = 1
              /\ LET r == c[TheOne(OwnershipBarriers(c))]
                     a == t[TheOne(OwnershipBarriers(t))]
                 IN /\ r.image = a.image
                    /\ r.old_layout = "TRANSFER_DST_OPTIMAL"
                    /\ a.old_layout = "TRANSFER_DST_OPTIMAL"
                    /\ r.new_layout = "TRANSFER_SRC_OPTIMAL"
                    /\ a.new_layout = "TRANSFER_SRC_OPTIMAL"
                    /\ r.src_queue_family_index = compute_family(qf)
                    /\ a.src_queue_family_index = compute_family(qf)
                    /\ r.dst_queue_family_index = transfer_family(qf)
                    /\ a.dst_queue_family_index = transfer_family(qf)

C1_Witness ==
  /\ cb["compute"].state = "Executable"
  /\ cb["transfer"].state = "Executable"
  /\ CrossFamily

\* the image barriers recorded after the clear command of the clear sequence
ClosingBarriers(cmds) ==
  { i \in 1..Len(cmds) :
      /\ cmds[i].type = "image_barrier"
      /\ \E k \in 1..(i - 1) : cmds[k].type = "clear" }

\* C2: with differing families the release has access TRANSFER_WRITE -> NONE and
\* stage CLEAR -> TRANSFER and the acquire has access NONE -> TRANSFER_READ and
\* stage TRANSFER -> COPY; with equal families the single closing barrier of the
\* clear sequence has access TRANSFER_WRITE -> TRANSFER_READ, stage CLEAR ->
\* TRANSFER and both queue family fields ignored.
C2_BarrierMasks ==
  BothRecorded =>
    LET c == cb["compute"].cmds
        t == cb["transfer"].cmds
    IN /\ Cardinality(ClosingBarriers(c)) = 1
       /\ LET r == c[TheOne(ClosingBarriers(c))]
          IN /\ r.src_access_mask = "TRANSFER_WRITE"
             /\ r.src_stage_mask = "CLEAR"
             /\ r.dst_stage_mask = "TRANSFER"
             /\ IF CrossFamily
                  THEN /\ r.dst_access_mask = "NONE"
                       /\ OwnershipBarriers(t) # { }
                       /\ \A i \in OwnershipBarriers(t) :
                            /\ t[i].src_access_mask = "NONE"
                            /\ t[i].dst_access_mask = "TRANSFER_READ"
                            /\ t[i].src_stage_mask = "TRANSFER"
                            /\ t[i].dst_stage_mask = "COPY"
                  ELSE /\ r.dst_access_mask = "TRANSFER_READ"
                       /\ r.src_queue_family_index = QUEUE_FAMILY_IGNORED
                       /\ r.dst_queue_family_index = QUEUE_FAMILY_IGNORED

C2_Witness ==
  /\ cb["compute"].state = "Executable"
  /\ cb["transfer"].state = "Executable"
  /\ ~CrossFamily

\* the clear sequence on the compute family followed by the copy sequence on
\* the transfer family
ClearThenCopy ==
  [ i \in 1..(Len(cb["compute"].cmds) + Len(cb["transfer"].cmds)) |->
      IF i <= Len(cb["compute"].cmds)
        THEN [ cmd |-> cb["compute"].cmds[i], family |-> compute_family(qf) ]
        ELSE [ cmd |-> cb["transfer"].cmds[i - Len(cb["compute"].cmds)],
               family |-> transfer_family(qf) ] ]

RECURSIVE LayoutTrace(_, _, _)
\* the image layouts before step 1, .., before step k, after step k of steps,
\* starting from l0
LayoutTrace(steps, k, l0) ==
  IF k = 0 THEN << l0 >>
  ELSE LET before == LayoutTrace(steps, k - 1, l0)
       IN Append(before, LayoutAfter(steps[k].cmd, steps[k].family, before[k]))

\* the steps at which TRANSFER_DST_OPTIMAL -> TRANSFER_SRC_OPTIMAL takes effect
EffectiveTransitions(layouts) ==
  { k \in 1..(Len(layouts) - 1) :
      /\ layouts[k] = "TRANSFER_DST_OPTIMAL"
      /\ layouts[k + 1] = "TRANSFER_SRC_OPTIMAL" }

\* C3: executing the clear sequence and then the copy sequence from any initial
\* layout, the image is in TRANSFER_DST_OPTIMAL when the clear executes, the
\* transition to TRANSFER_SRC_OPTIMAL takes effect exactly once (at the acquire
\* when the families differ, though the release declares it too) and the image
\* is in TRANSFER_SRC_OPTIMAL when the copy executes.
C3_LayoutTracking ==
  BothRecorded =>
    LET steps == ClearThenCopy
        nc == Len(cb["compute"].cmds)
    IN \A l0 \in Layouts :
         LET layouts == LayoutTrace(steps, Len(steps), l0)
         IN /\ \A k \in 1..Len(steps) :
                 steps[k].cmd.type = "clear" =>
                   /\ layouts[k] = "TRANSFER_DST_OPTIMAL"
                   /\ steps[k].cmd.layout = "TRANSFER_DST_OPTIMAL"
            /\ \A k \in 1..Len(steps) :
                 steps[k].cmd.type = "copy" =>
                   /\ layouts[k] = "TRANSFER_SRC_OPTIMAL"
                   /\ steps[k].cmd.layout = "TRANSFER_SRC_OPTIMAL"
            /\ Cardinality(EffectiveTransitions(layouts)) = 1
            /\ CrossFamily =>
                 /\ \A k \in EffectiveTransitions(layouts) :
                      k > nc /\ IsOwnershipTransfer(steps[k].cmd)
                 /\ \E k \in 1..nc :
                      /\ IsOwnershipTransfer(steps[k].cmd)
                      /\ steps[k].cmd.new_layout = "TRANSFER_SRC_OPTIMAL"

C3_Witness ==
  /\ cb["compute"].state = "Executable"
  /\ cb["transfer"].state = "Invalid"
  /\ BothRecorded
  /\ CrossFamily

\* C4: every recorded copy-to-host sequence ends with the buffer barrier COPY ->
\* HOST, TRANSFER_WRITE -> HOST_READ, offset 0, whole size, families ignored,
\* recorded after the image-to-buffer copy, whatever the families and whatever
\* the coherence of the destination memory.
C4_FlushHostLast ==
  Recorded("transfer") =>
    LET t == cb["transfer"].cmds
        last == t[Len(t)]
    IN /\ last.type = "buffer_barrier"
       /\ last.src_stage_mask = "COPY"
       /\ last.dst_stage_mask = "HOST"
       /\ last.src_access_mask = "TRANSFER_WRITE"
       /\ last.dst_access_mask = "HOST_READ"
       /\ last.offset = 0
       /\ last.size = WHOLE_SIZE
       /\ last.src_queue_family_index = QUEUE_FAMILY_IGNORED
       /\ last.dst_queue_family_index = QUEUE_FAMILY_IGNORED
       /\ last.buffer = final_buffer
       /\ \E k \in 1..(Len(t) - 1) : t[k].type = "copy" /\ t[k].buffer = last.buffer
       /\ \A k \in 1..Len(t) : t[k].type = "buffer_barrier" => k = Len(t)

C4_Witness ==
  /\ cb["transfer"].state = "Executable"
  /\ coherent
  /\ ~CrossFamily

\* the submissions queued so far by the call id, as positions of submitLog
SubmissionsOf(id, which) ==
  { i \in 1..Len(submitLog) : submitLog[i].call = id /\ submitLog[i].queue = which }

\* C5: the compute submission (no wait, signals the semaphore, no fence) is
\* queued strictly before the transfer submission (waits on that semaphore at
\* TRANSFER, signals the fence), and the host waits on the fence only after both
\* were queued successfully.
C5_SubmitOrder ==
  /\ \A i \in 1..Len(submitLog) :
       LET s == submitLog[i]
       IN IF s.queue = "compute"
            THEN /\ s.cb = "compute"
                 /\ s.wait = NoHandle
                 /\ s.signal = s.call
                 /\ s.fence = NoHandle
            ELSE /\ s.cb = "transfer"
                 /\ s.wait = s.call
                 /\ s.wait_stage = "TRANSFER"
                 /\ s.signal = NoHandle
                 /\ s.fence = s.call
                 /\ \E j \in 1..(i - 1) :
                      /\ submitLog[j].queue = "compute"
                      /\ submitLog[j].call = s.call
                      /\ submitLog[j].signal = s.wait
  /\ pc = "wait" =>
       /\ SubmissionsOf(nSubmit, "compute") # { }
       /\ SubmissionsOf(nSubmit, "transfer") # { }
       /\ sem[nSubmit].status = "live"
       /\ fence[nSubmit].status = "live"

C5_Witness ==
  /\ pc = "wait"
  /\ cb["compute"].state = "Pending"
  /\ cb["transfer"].state = "Pending"
  /\ Len(queue["transfer"]) = 1
  /\ ~queue["transfer"][1].started

\* C6: in every interleaving the copy of a call that submitted a recorded clear
\* and a recorded copy begins only after that clear completed and its write
\* was made available, and submit_and_wait
\* returns Ok only after the copy's write to the buffer completed, whatever
\* the queue families.
C6_CopyAfterClear ==
  /\ \A e \in copyLog :
       ( \A i \in SubmissionsOf(e.call, "compute") \cup SubmissionsOf(e.call, "transfer") :
           submitLog[i].cb_state = "Executable" ) =>
         e.clear_done /\ e.made_available
  /\ ( pc = "idle" /\ LastReturn = [ op |-> "submit_and_wait", res |-> "Ok" ] ) =>
       \A s \in Range(queue["transfer"]) : s.call # nSubmit

\* C7: after record_work and a submit_and_wait that returned Ok, the host
\* callback of get_resulting_data gets 400*800*4 bytes and every pixel is the
\* clear colour.
C7_HostSeesClearColor ==
  ( /\ LastReturn = [ op |-> "get_resulting_data", res |-> "Ok" ]
    /\ hostData.after = << [ op |-> "submit_and_wait", res |-> "Ok" ] >>
    /\ \A n \in CbNames :
         /\ SubmissionsOf(nSubmit, n) # { }
         /\ \A i \in SubmissionsOf(nSubmit, n) : submitLog[i].cb_state = "Executable" ) =>
    /\ hostData.len = 400 * 800 * 4
    /\ hostData.pixel = IMAGE_COLOR

\* whether the call id of submit_and_wait has returned
CallReturned(id) ==
  id < nSubmit \/ ( id = nSubmit /\ pc \in { "idle", "dropped", "panicked" } )

\* C8: whichever step of submit_and_wait fails, and on success, every semaphore
\* and fence the call created is destroyed exactly once by the time it returns.
C8_SyncObjectsDestroyedOnce ==
  \A id \in CallIds :
    /\ sem[id].destroys <= 1
    /\ fence[id].destroys <= 1
    /\ sem[id].status = "none" => sem[id].destroys = 0
    /\ fence[id].status = "none" => fence[id].destroys = 0
    /\ CallReturned(id) =>
         /\ sem[id].status # "live"
         /\ fence[id].status # "live"
         /\ sem[id].status = "destroyed" => sem[id].destroys = 1
         /\ fence[id].status = "destroyed" => fence[id].destroys = 1

C8_Witness ==
  /\ pc = "idle"
  /\ LastReturn = [ op |-> "submit_and_wait", res |-> "Err" ]
  /\ nSubmit = 2
  /\ SubmissionsOf(1, "transfer") # { }
  /\ SubmissionsOf(2, "compute") # { }
  /\ \A id \in 1..2 : sem[id].destroys = 1 /\ fence[id].destroys = 1

\* C9: no semaphore, fence, pool, image, buffer or memory is destroyed while a
\* Pending submission references it, and none is destroyed twice; in particular
\* the semaphore outlives a Pending compute submission when the transfer
\* submit or the fence wait fails.
C9_NoDestroyWhileInUse ==
  /\ hazards \cap { "semaphore_destroyed_in_use", "fence_destroyed_in_use",
                    "object_destroyed_in_use", "semaphore_destroyed_not_live",
                    "fence_destroyed_not_live" } = { }
  /\ \A o \in DOMAIN objects : objects[o].destroys <= 1
  /\ \A id \in CallIds : sem[id].destroys <= 1 /\ fence[id].destroys <= 1

\* C10: a command pool is reset only when none of its sequences is Pending; a
\* reset that would hit a Pending sequence is rejected by an explicit check.
C10_ResetOnlyWhenIdle ==
  /\ "compute_pool_reset_pending" \notin hazards
  /\ "transfer_pool_reset_pending" \notin hazards

\* ------------------------------------------- claims on Renderer::initialize
\* the resource each device memory is bound to
BoundResource(mem) ==
  IF mem = "clear_image_memory" THEN "clear_image" ELSE "final_buffer"

Memories == { "clear_image_memory", "final_buffer_memory" }

\* the positions of log where obj is created / destroyed
CreatedAt(log, o) ==
  { i \in 1..Len(log) : log[i] = [ op |-> "create", obj |-> o ] }

DestroyedAt(log, o) ==
  { i \in 1..Len(log) : log[i] = [ op |-> "destroy", obj |-> o ] }

\* C11: on every path that destroys GPU data, a device memory is freed only
\* after the image or buffer bound to it has been destroyed: every free of a
\* memory in the construction log is preceded by the destruction of its
\* resource, and so is every free in GPUData::destroy_self.
C11_ResourceBeforeMemory ==
  /\ \A m \in Memories : \A i \in DestroyedAt(build.log, m) :
        \E j \in DestroyedAt(build.log, BoundResource(m)) : j < i
  /\ \A m \in Memories : \A i \in 1..Len(destroyLog) :
        destroyLog[i] = m =>
          \E j \in 1..(i - 1) : destroyLog[j] = BoundResource(m)

\* C12: when Renderer::initialize returns an error, every object created
\* before the failing step has been destroyed exactly once, after its
\* creation, and no object that was never created has been destroyed.
C12_RollbackComplete ==
  build.pc = "failed" =>
    \A o \in Range(CreationOrder) :
      /\ Cardinality(DestroyedAt(build.log, o)) = Cardinality(CreatedAt(build.log, o))
      /\ \A d \in DestroyedAt(build.log, o) :
            \E c \in CreatedAt(build.log, o) : c < d

\* the unit a failure path of Renderer::initialize destroys an object with:
\* the two pools are destroyed together as the command pools
UnitOf(o) ==
  IF o \in { "compute_pool", "transfer_pool" } THEN "command_pools" ELSE o

\* C13: on every failure path the objects are destroyed in the reverse of
\* their creation order: of two destroyed objects of different units, the
\* one created later is destroyed first.
C13_ReverseCreationOrder ==
  build.pc = "failed" =>
    \A a, b \in Range(CreationOrder) :
      UnitOf(a) # UnitOf(b) =>
        \A ca \in CreatedAt(build.log, a), cb2 \in CreatedAt(build.log, b) :
          \A da \in DestroyedAt(build.log, a), db \in DestroyedAt(build.log, b) :
            ca < cb2 => db < da

\* ------------------------------------------------- claims on the host read
\* C14: whenever the memory type of the readback buffer lacks HOST_COHERENT,
\* the mapped range has been invalidated before the host callback of
\* get_buffer_data read it, in a read that follows a submit_and_wait whose
\* wait on the completion fence returned Ok.
C14_InvalidateBeforeHostRead ==
  ( /\ hostData.len # 0
    /\ hostData.after = << [ op |-> "submit_and_wait", res |-> "Ok" ] >>
    /\ ~coherent ) =>
    hostData.invalidated

\* C15: the host never reads the readback buffer while a submission that
\* writes it is Pending, whatever sequence of Renderer calls came before.
C15_NoHostReadWhilePending ==
  "host_read_while_pending" \notin hazards

\* ------------------------------------------- claims on the queue family map
\* the positions, counted from 0, of the families with every flag of has and
\* no flag of lacks
FamiliesWith(fams, has, lacks) ==
  { k - 1 : k \in { j \in 1..Len(fams) : has \subseteq fams[j] /\ fams[j] \cap lacks = { } } }

Min(S) == CHOOSE x \in S : \A y \in S : x <= y

\* the lowest of these positions as an Option
Lowest(S) == IF S = { } THEN NoFamily ELSE << Min(S) >>

\* C17: for every list of queue families the mapping records graphics as
\* the lowest-indexed family with GRAPHICS, compute as the lowest-indexed
\* family with COMPUTE and without GRAPHICS, transfer as the lowest-indexed
\* family with TRANSFER and without GRAPHICS and COMPUTE, each None when there
\* is no such family; compute and transfer never hold the graphics index.
C17_SinglePassMapping ==
  queue_families.state = "mapped" =>
    /\ << queue_families.graphics >> = Lowest(FamiliesWith(families, { "GRAPHICS" }, { }))
    /\ queue_families.compute = Lowest(FamiliesWith(families, { "COMPUTE" }, { "GRAPHICS" }))
    /\ queue_families.transfer =
         Lowest(FamiliesWith(families, { "TRANSFER" }, { "GRAPHICS", "COMPUTE" }))
    /\ queue_families.compute # << queue_families.graphics >>
    /\ queue_families.transfer # << queue_families.graphics >>

\* a list where a graphics family that also has COMPUTE and TRANSFER comes
\* before a dedicated compute family, and a dedicated transfer family exists
C17_Witness ==
  /\ queue_families.state = "mapped"
  /\ Cardinality(FamiliesWith(families, { "GRAPHICS", "COMPUTE", "TRANSFER" }, { })) >= 1
  /\ queue_families.compute # NoFamily
  /\ queue_families.graphics < queue_families.compute[1]
  /\ queue_families.transfer # NoFamily

\* C18: get_compute_index is compute.index when compute is present and
\* graphics.index otherwise; get_transfer_index is transfer.index when
\* transfer is present and graphics.index otherwise.
C18_FallbackAccessors ==
  indices.state = "resolved" =>
    /\ indices.compute = IF queue_families.compute = NoFamily
                           THEN queue_families.graphics
                           ELSE queue_families.compute[1]
    /\ indices.transfer = IF queue_families.transfer = NoFamily
                            THEN queue_families.graphics
                            ELSE queue_families.transfer[1]

\* the accessors applied to a map with a dedicated compute family and no
\* dedicated transfer family
C18_Witness ==
  /\ indices.state = "resolved"
  /\ queue_families.compute # NoFamily
  /\ queue_families.transfer = NoFamily
  /\ indices.transfer = queue_families.graphics

\* C19: the transfer family the command recorder uses (transfer pool
\* creation, the release barrier of record_clear_img, the acquire barrier of
\* record_copy_img_to_buffer) is what get_transfer_index returns for the same
\* map: graphics.index when transfer is absent.
C19_RecorderUsesAccessor ==
  indices.state = "resolved" => indices.recorder_transfer = indices.transfer

\* ----------------------------------------- claims on select_physical_device
HasGraphics(a) == \E k \in 1..Len(a.families) : "GRAPHICS" \in a.families[k]

\* C16: an adapter none of whose queue families has GRAPHICS is never
\* returned by select_physical_device, and when no enumerated adapter has a
\* graphics family nothing is returned.
C16_GraphicsRequired ==
  /\ selected.state = "some" => HasGraphics(adapters[selected.adapter])
  /\ ( selected # NoSelection /\ \A k \in 1..Len(adapters) : ~HasGraphics(adapters[k]) ) =>
       selected.state = "none"

\* the only adapter passes the first filter, has no graphics family, and
\* selection has returned None
C16_Witness ==
  /\ Len(adapters) = 1
  /\ supported(adapters[1])
  /\ ~HasGraphics(adapters[1])
  /\ selected.state = "none"

\* the adapters that reach the ranking
Passing == { k \in 1..Len(adapters) : supported(adapters[k]) /\ HasGraphics(adapters[k]) }

UniqueCount(a) == Len(map_families(a.families).unique_indices)

\* C20: when the adapters that pass all have the same number of unique queue
\* family indices and are discrete or integrated, with at least one of each,
\* the adapter returned is a discrete one, whatever the enumeration order.
C20_DiscreteOverIntegrated ==
  ( /\ selected # NoSelection
    /\ \A i, j \in Passing : UniqueCount(adapters[i]) = UniqueCount(adapters[j])
    /\ \A i \in Passing : adapters[i].device_type \in { "DISCRETE_GPU", "INTEGRATED_GPU" }
    /\ \E i \in Passing : adapters[i].device_type = "DISCRETE_GPU"
    /\ \E i \in Passing : adapters[i].device_type = "INTEGRATED_GPU" ) =>
    /\ selected.state = "some"
    /\ adapters[selected.adapter].device_type = "DISCRETE_GPU"

\* the integrated adapter is enumerated first, both have the same families,
\* and the discrete one, enumerated second, is returned
C20_Witness ==
  /\ Len(adapters) = 2
  /\ Passing = { 1, 2 }
  /\ adapters[1].device_type = "INTEGRATED_GPU"
  /\ adapters[2].device_type = "DISCRETE_GPU"
  /\ adapters[1].families = adapters[2].families
  /\ selected.state = "some"
  /\ selected.adapter = 2

\* the candidate the ranking sees for adapter k
CandidateOf(k) ==
  [ adapter |-> k, device_type |-> adapters[k].device_type,
    queue_families |-> map_families(adapters[k].families) ]

\* C21: specialization dominates type. Of two adapters that reach the
\* ranking the one with more unique queue family indices has the strictly
\* lower score, whatever the two types, and the adapter returned has the most
\* unique indices of all; unique_indices has 1 to 3 elements, so
\* 3 - |unique_indices| is never negative.
C21_SpecializationDominates ==
  selected # NoSelection =>
    /\ \A i, j \in Passing :
         UniqueCount(adapters[i]) > UniqueCount(adapters[j]) =>
           score(CandidateOf(i)) < score(CandidateOf(j))
    /\ \A i \in Passing :
         /\ UniqueCount(adapters[i]) \in 1..3
         /\ queue_score(CandidateOf(i).queue_families) >= 0
         /\ selected.state = "some"
         /\ UniqueCount(adapters[selected.adapter]) >= UniqueCount(adapters[i])

\* a discrete adapter with two unique indices is enumerated before an
\* adapter of unknown type with three, and the second one is returned
C21_Witness ==
  /\ Len(adapters) = 2
  /\ Passing = { 1, 2 }
  /\ adapters[1].device_type = "DISCRETE_GPU"
  /\ UniqueCount(adapters[1]) = 2
  /\ adapters[2].device_type = "unknown"
  /\ UniqueCount(adapters[2]) = 3
  /\ selected.state = "some"
  /\ selected.adapter = 2

\* C22: when no adapter passes the filters, selection hands its caller the
\* absent value and neither returns an error nor panics.
C22_NoneFoundNotPanic ==
  ( selected # NoSelection /\ Passing = { } ) =>
    /\ selected.state = "none"
    /\ "outcome" \in DOMAIN selected => selected.outcome # "panic"

\* ------------------------------------------------ claims on the first filter
\* the adapter the filter was applied to has been returned by the selection
Returned1 ==
  /\ properties # NoSelection
  /\ properties.state = "filtered"
  /\ selected.state = "some"

\* C23: for every adapter returned by the selection the image format has the
\* transfer-source and the transfer-destination feature under optimal tiling
\* and under linear tiling.
C23_FormatBothTilings ==
  Returned1 =>
    /\ { "TRANSFER_SRC", "TRANSFER_DST" } \subseteq properties.optimal_tiling_features
    /\ { "TRANSFER_SRC", "TRANSFER_DST" } \subseteq properties.linear_tiling_features

\* C24: every adapter returned by the selection has an API version of at
\* least TARGET_API_VERSION, every required extension, and for linear and for
\* optimal tiling a maximum extent of at least the output width and height;
\* an adapter failing any one of these is rejected by the filter.
C24_VersionExtensionsExtent ==
  LET ok == /\ properties.api_version >= TARGET_API_VERSION
            /\ properties.required_extensions \subseteq properties.extensions
            /\ properties.linear_max_extent.width >= IMAGE_WIDTH
            /\ properties.linear_max_extent.height >= IMAGE_HEIGHT
            /\ properties.optimal_max_extent.width >= IMAGE_WIDTH
            /\ properties.optimal_max_extent.height >= IMAGE_HEIGHT
  IN  /\ Returned1 => ok
      /\ ( properties # NoSelection /\ properties.state = "filtered" /\ ~ok ) =>
           /\ ~supported(adapters[1])
           /\ selected.state # "some"

\* an adapter at exactly the target version, with the required extension and
\* extents of exactly the output size, is returned
C24_Witness ==
  /\ Returned1
  /\ properties.api_version = TARGET_API_VERSION
  /\ properties.required_extensions = { "VK_KHR_swapchain" }
  /\ properties.linear_max_extent = [ width |-> IMAGE_WIDTH, height |-> IMAGE_HEIGHT ]
  /\ properties.optimal_max_extent = [ width |-> IMAGE_WIDTH, height |-> IMAGE_HEIGHT ]

\* ------------------------------------- claims on find_optimal_memory_type
\* the indices of the types of the request whose bit is set in the mask and
\* whose flags contain props
Eligible(props) ==
  { i \in 0..(Len(memory.memory_types) - 1) :
      /\ ( memory.required_memory_type_bits \div 2 ^ i ) % 2 = 1
      /\ props \subseteq memory.memory_types[i + 1] }

\* C25: find_optimal_memory_type succeeds exactly when some type with its bit
\* set in the mask has flags that contain the required set; the index it
\* returns has its bit set and flags that contain the required set; when no
\* such type exists it returns the error.
C25_FindsIffSatisfiable ==
  memory_type # NoSelection =>
    /\ memory_type.ok <=> Eligible(memory.required_properties) # { }
    /\ memory_type.ok => memory_type.index \in Eligible(memory.required_properties)

\* the only type with the required flags has its bit cleared and a type
\* without them has its bit set: the error is returned
C25_Witness ==
  /\ memory_type # NoSelection
  /\ ~memory_type.ok
  /\ memory.required_memory_type_bits # 0
  /\ \E k \in 1..Len(memory.memory_types) :
        memory.required_properties \subseteq memory.memory_types[k]

\* C26: the lowest-indexed eligible type with the required and the optional
\* flags is returned whenever one exists, even behind an eligible type with
\* the required flags only; otherwise the lowest-indexed eligible type with
\* the required flags.
C26_OptionalPreferred ==
  LET both == Eligible(memory.required_properties \cup memory.optional_properties)
      required == Eligible(memory.required_properties)
  IN  memory_type # NoSelection =>
        /\ both # { } =>
             memory_type.ok /\ memory_type.index = Min(both)
        /\ ( both = { } /\ required # { } ) =>
             memory_type.ok /\ memory_type.index = Min(required)

\* type 0 is eligible with the required flags only, a later type has the
\* optional flags too and is the one returned
C26_Witness ==
  /\ memory_type # NoSelection
  /\ memory_type.ok
  /\ memory_type.index > 0
  /\ 0 \in Eligible(memory.required_properties)
  /\ memory.optional_properties # { }

\* ------------------------------------------- claims on the error conversions
\* the codes a conversion has an arm of its own for
Recognized(target) ==
  { "ERROR_OUT_OF_DEVICE_MEMORY", "ERROR_OUT_OF_HOST_MEMORY" } \cup
  ( IF target = "OutOfMemoryError" THEN { } ELSE { "ERROR_DEVICE_LOST" } ) \cup
  ( IF target = "InitializationError"
      THEN { "ERROR_UNKNOWN", "ERROR_INITIALIZATION_FAILED" } ELSE { } )

\* C27: every conversion of a vk::Result into OutOfMemoryError,
\* QueueSubmitError, InitializationError or FrameRenderError maps a code it
\* does not recognize to an Unknown variant and never panics.
C27_UnknownNotPanic ==
  converted # NoSelection =>
    /\ converted.value # Panic
    /\ code.value \notin Recognized(converted.target) =>
         converted.value = << "Unknown" >>

\* ------------------------------------------------ claims on the submissions
\* C28: for every sequence of record_work and submit_and_wait calls, each
\* command buffer handed to a queue submission is Executable: fully recorded
\* since the last reset of its pool and not submitted since then, never
\* Initial and never already executed.
C28_SubmitsExecutable ==
  \A i \in 1..Len(submitLog) : submitLog[i].cb_state = "Executable"

\* ------------------------------------------------------- claims on the drop
\* the place of an object in the order the claim gives: command pools, GPU
\* data, logical device, debug utils, instance
DropStage(o) ==
  CASE o \in { "compute_pool", "transfer_pool" } -> 1
    [] o \in { "clear_image", "clear_image_memory", "final_buffer",
               "final_buffer_memory" } -> 2
    [] o = "device" -> 3
    [] o = "debug_utils" -> 4
    [] o = "instance" -> 5

\* C30: when a Renderer is dropped the device-idle wait has completed before
\* any object is destroyed, so no submission is Pending at the first destroy;
\* the objects are then destroyed in the order command pools, GPU data,
\* logical device, debug utils, instance, each exactly once, and so no
\* device-owned object is destroyed after the device.
C30_DropWaitsThenDestroysInOrder ==
  [][ destroyLog' # destroyLog =>
        /\ ~AnyPending
        /\ destroyLog = << >>
        /\ Range(destroyLog') = DOMAIN objects
        /\ Len(destroyLog') = Cardinality(DOMAIN objects)
        /\ \A i, j \in 1..Len(destroyLog') :
             i < j => DropStage(destroyLog'[i]) <= DropStage(destroyLog'[j])
        /\ \A i, j \in 1..Len(destroyLog') :
             destroyLog'[i] = "device" /\ DropStage(destroyLog'[j]) < 3 => j < i ]_vars

\* a Renderer dropped after a submit_and_wait that queued work and returned Err
C30_Witness ==
  /\ pc = "dropped"
  /\ destroyLog # << >>
  /\ Len(submitLog) > 0
  /\ \E i \in 1..Len(trail) : trail[i] = [ op |-> "submit_and_wait", res |-> "Err" ]

\* ------------------------------------------------ claims on unique_indices
\* C29: for every adapter that reaches ranking, unique_indices has no
\* duplicate, always contains graphics.index, contains compute.index and
\* transfer.index exactly when those fields are present, so it has between 1
\* and 3 elements; the graphics, compute and transfer indices are pairwise
\* distinct.
C29_UniqueIndices ==
  queue_families.state = "mapped" =>
    LET q == queue_families
        u == q.unique_indices
    IN  /\ Cardinality(Range(u)) = Len(u)
        /\ q.graphics \in Range(u)
        /\ Range(u) = { q.graphics } \cup Range(q.compute) \cup Range(q.transfer)
        /\ Len(u) \in 1..3
        /\ q.graphics \notin Range(q.compute) \cup Range(q.transfer)
        /\ Range(q.compute) \cap Range(q.transfer) = { }

\* an adapter mapped with a dedicated compute and a dedicated transfer family
\* after a graphics family that can do both
C29_Witness ==
  /\ queue_families.state = "mapped"
  /\ Len(queue_families.unique_indices) = 3
  /\ families[queue_families.graphics + 1] = QueueFlags
====
